---- MODULE Spec2Model ----
(***************************************************************************)
(* The SystemDesc derive of amethyst_derive (system_desc.rs): the field    *)
(* classifier and the descriptor synthesizer, modelled as the pipeline of  *)
(* impl_system_desc running over one struct definition.                    *)
(*                                                                         *)
(* Token streams are modelled as data: a statement of the generated build  *)
(* body is a record with an "op", a construction expression is a record    *)
(* with a "kind" and its argument list.                                    *)
(***************************************************************************)
EXTENDS Integers, Sequences, FiniteSets, TLC

\* Largest number of fields of the struct definitions explored.
MaxFields == 2

\* Largest number of system dependencies of the injection bundles explored.
MaxDependencies == 2

----------------------------------------------------------------------------
(* Input domain: types, fields, attributes.                                *)

\* A generic argument that is a path type, e.g. the T of ReaderId<T>.
TypeArg(n) == [kind |-> "type_path", name |-> n]

\* A generic argument that is no type, e.g. the 'a of ReaderId<'a>.
LifetimeArg == [kind |-> "lifetime", name |-> "a"]

\* A path type (Type::Path): the ident of its last segment, whether that
\* segment has angle-bracketed arguments, and the arguments.
PathType(n, as) == [path |-> TRUE, name |-> n, angle |-> as # <<>>, args |-> as]

\* A type that is no Type::Path: the reference type &Foo.
TyRef == [path |-> FALSE, name |-> "&Foo", angle |-> FALSE, args |-> <<>>]

TyPhantom == PathType("PhantomData", <<TypeArg("EvA")>>)
TyFoo == PathType("Foo", <<>>)
TyBar == PathType("Bar", <<>>)
TyReaderA == PathType("ReaderId", <<TypeArg("EvA")>>)
TyReaderB == PathType("ReaderId", <<TypeArg("EvB")>>)
TyReaderTwo == PathType("ReaderId", <<TypeArg("EvA"), TypeArg("EvB")>>)
TyReaderLifetime == PathType("ReaderId", <<LifetimeArg>>)

TypeDomain ==
    {TyPhantom, TyFoo, TyBar, TyReaderA, TyReaderB, TyReaderTwo, TyReaderLifetime}

\* Name of the i-th (0-based) field of a struct with named fields.
FieldIdent(i) == "f" \o ToString(i)

\* A field of the struct, before it gets its ident: the declared type and
\* whether it carries #[system_desc(skip)] / #[system_desc(event_channel_reader)].
\* Untagged fields of plain, marker and generic type; reader-tagged fields of
\* every type, well-formed or not; skip-tagged fields with and without the
\* reader tag.
FieldDomain ==
    [ty : {TyFoo, TyBar, TyPhantom, TyReaderA}, skip : {FALSE}, reader : {FALSE}]
    \cup [ty : TypeDomain, skip : {FALSE}, reader : {TRUE}]
    \cup [ty : {TyFoo, TyPhantom, TyReaderA}, skip : {TRUE}, reader : BOOLEAN]

\* The fields of a struct of the given shape: named fields get the idents
\* f0, f1, ..; tuple fields have none.
WithIdents(shape, raw) ==
    [i \in 1..Len(raw) |->
        [ident |-> IF shape = "Named" THEN FieldIdent(i - 1) ELSE "None",
         ty |-> raw[i].ty, skip |-> raw[i].skip, reader |-> raw[i].reader]]

SeqsUpTo(S, n) == UNION {[1..k -> S] : k \in 0..n}

\* Items of a name(..) / insert(..) list.
Word(w) == [kind |-> "word", text |-> w, parses |-> TRUE]
StrLit(s, ok) == [kind |-> "str", text |-> s, parses |-> ok]
IntLit == [kind |-> "int", text |-> "1", parses |-> FALSE]
NestedList == [kind |-> "list", text |-> "g", parses |-> FALSE]

\* Nested metas of a #[system_desc(..)] attribute.
NameGroup(items) == [meta |-> TRUE, list |-> TRUE, name |-> "name", items |-> items]
InsertGroup(items) == [meta |-> TRUE, list |-> TRUE, name |-> "insert", items |-> items]
BareWord(n) == [meta |-> TRUE, list |-> FALSE, name |-> n, items |-> <<>>]

\* Attributes of the struct.
SystemDescAttr(nested) == [path |-> "system_desc", list |-> TRUE, nested |-> nested]
OtherAttr == [path |-> "derive", list |-> TRUE, nested |-> <<BareWord("Debug")>>]

\* The attribute lists explored with every field sequence: no attribute,
\* a descriptor name alone, and a descriptor name with inserts spread over
\* two attributes.
CoreAttrChoices ==
    { <<>>,
      <<SystemDescAttr(<<NameGroup(<<Word("Desc")>>)>>)>>,
      <<SystemDescAttr(<<InsertGroup(<<StrLit("B", TRUE), Word("A")>>),
                         NameGroup(<<Word("Desc")>>),
                         InsertGroup(<<Word("C")>>)>>),
        OtherAttr,
        SystemDescAttr(<<InsertGroup(<<Word("D")>>), NameGroup(<<>>)>>)>> }

\* The attribute lists explored with the sample field sequences: the core
\* ones, inserts without a name, and malformed name(..) and insert(..) lists.
AttrChoices ==
    CoreAttrChoices \cup
    { <<OtherAttr, SystemDescAttr(<<InsertGroup(<<Word("A"), StrLit("B", TRUE)>>)>>)>>,
      <<SystemDescAttr(<<NameGroup(<<Word("Desc"), Word("Other")>>)>>)>>,
      <<SystemDescAttr(<<NameGroup(<<StrLit("Desc", TRUE)>>)>>)>>,
      <<SystemDescAttr(<<NameGroup(<<Word("Desc")>>),
                         InsertGroup(<<Word("A"), StrLit("(", FALSE)>>)>>)>>,
      <<SystemDescAttr(<<InsertGroup(<<IntLit>>)>>)>>,
      <<SystemDescAttr(<<NameGroup(<<Word("Desc")>>), InsertGroup(<<NestedList>>)>>)>> }

\* The field sequences explored with every attribute list.
SampleFields ==
    { <<>>,
      <<[ty |-> TyFoo, skip |-> FALSE, reader |-> FALSE]>>,
      <<[ty |-> TyReaderA, skip |-> FALSE, reader |-> TRUE],
        [ty |-> TyFoo, skip |-> TRUE, reader |-> FALSE]>> }

\* Fields of a non-path type, explored in structs with named fields (where
\* no name is derived from the type): untagged, tagged event_channel_reader,
\* and tagged both.
NonPathFields ==
    { <<[ty |-> TyRef, skip |-> FALSE, reader |-> FALSE]>>,
      <<[ty |-> TyRef, skip |-> FALSE, reader |-> TRUE]>>,
      <<[ty |-> TyRef, skip |-> TRUE, reader |-> TRUE]>>,
      <<[ty |-> TyFoo, skip |-> FALSE, reader |-> FALSE],
        [ty |-> TyRef, skip |-> FALSE, reader |-> TRUE]>> }

\* The struct definitions explored: a unit struct has no fields; every
\* field sequence up to MaxFields with the core attribute lists, the sample
\* field sequences with every attribute list, and the non-path fields in
\* named structs with the core attribute lists.
AstDomain ==
    {[ident |-> "Sys", shape |-> "Unit", fields |-> <<>>, attrs |-> a] : a \in AttrChoices}
    \cup
    {[ident |-> "Sys", shape |-> s, fields |-> WithIdents(s, raw), attrs |-> a] :
        s \in {"Named", "Unnamed"}, raw \in SeqsUpTo(FieldDomain, MaxFields),
        a \in CoreAttrChoices}
    \cup
    {[ident |-> "Sys", shape |-> s, fields |-> WithIdents(s, raw), attrs |-> a] :
        s \in {"Named", "Unnamed"}, raw \in SampleFields, a \in AttrChoices}
    \cup
    {[ident |-> "Sys", shape |-> "Named", fields |-> WithIdents("Named", raw), attrs |-> a] :
        raw \in NonPathFields, a \in CoreAttrChoices}

----------------------------------------------------------------------------
(* Helpers of the derive.                                                  *)

\* FieldExt::contains_tag("system_desc", tag), as used by system_desc_fields.
contains_tag(field, tag) ==
    IF tag = "skip" THEN field.skip
    ELSE IF tag = "event_channel_reader" THEN field.reader
    ELSE FALSE

\* FieldExt::is_phantom_data: the type's last segment is PhantomData.
is_phantom_data(field) == field.ty.name = "PhantomData"

\* heck's to_snake_case on the type names of the domain.
to_snake_case(n) ==
    CASE n = "PhantomData" -> "phantom_data"
      [] n = "ReaderId" -> "reader_id"
      [] n = "Foo" -> "foo"
      [] n = "Bar" -> "bar"

\* snake_case(field): the field's type name in snake case, as an ident.
snake_case(field) == to_snake_case(field.ty.name)

----------------------------------------------------------------------------
(* Sequence helpers.                                                       *)

RECURSIVE Concat(_)
\* Concatenation of a sequence of sequences (Iterator::flat_map).
Concat(ss) == IF ss = <<>> THEN <<>> ELSE Head(ss) \o Concat(Tail(ss))

MapSeq(s, F(_)) == [i \in 1..Len(s) |-> F(s[i])]

\* The token value of a panic: generation aborts and nothing is emitted.
Panic == [panic |-> TRUE]

Absent == [kind |-> "absent"]

EmptyTokens == [kind |-> "empty"]

----------------------------------------------------------------------------
(* Attribute parsing.                                                      *)

\* The #[system_desc(..)] attributes that parse as a meta list.
meta_lists(ast) ==
    SelectSeq(ast.attrs, LAMBDA a : a.path = "system_desc" /\ a.list)

\* The group(..) items called `group` inside the system_desc(..) lists, in
\* declaration order.
nested_groups(ast, group) ==
    SelectSeq(
        Concat(MapSeq(meta_lists(ast),
                      LAMBDA ml : SelectSeq(ml.nested,
                                            LAMBDA n : n.meta /\ n.name = group))),
        LAMBDA n : n.list)

\* The closure system_desc_name maps over each name(..) list.
name_of_group(meta_list) ==
    IF Len(meta_list.items) # 1 THEN Panic
    ELSE IF meta_list.items[1].kind = "word"
         THEN [panic |-> FALSE, name |-> meta_list.items[1].text]
         ELSE Panic

\* system_desc_name: the iterator is lazy and only its first element is
\* taken, so only the first name(..) list is looked at.
system_desc_name(ast) ==
    LET groups == nested_groups(ast, "name")
    IN  IF groups = <<>> THEN [panic |-> FALSE, name |-> "None"]
        ELSE name_of_group(Head(groups))

\* The closure resource_insertion_expressions maps over each insert(..) item.
insertion_expr(item) ==
    IF item.kind = "word" THEN [panic |-> FALSE, expr |-> item.text]
    ELSE IF item.kind = "str" /\ item.parses THEN [panic |-> FALSE, expr |-> item.text]
    ELSE Panic

\* resource_insertion_expressions: one world.insert(..) per item of every
\* insert(..) list; the fold consumes the whole iterator, so any bad item
\* panics.
resource_insertion_expressions(ast) ==
    LET items == Concat(MapSeq(nested_groups(ast, "insert"), LAMBDA g : g.items))
        exprs == MapSeq(items, insertion_expr)
    IN  IF \E i \in 1..Len(exprs) : exprs[i].panic THEN Panic
        ELSE [panic |-> FALSE,
              stmts |-> MapSeq(exprs, LAMBDA e : [op |-> "insert", expr |-> e.expr])]

----------------------------------------------------------------------------
(* Field classification.                                                   *)

\* Mutant: the event_channel_reader tag is tested before the skip tag.
field_variant_of_reader_first(field) ==
    IF contains_tag(field, "event_channel_reader") THEN "Compute"
    ELSE IF contains_tag(field, "skip") THEN "Skipped"
    ELSE IF is_phantom_data(field) THEN "PhantomData"
    ELSE "Passthrough"

\* The if / else-if chain choosing a field's FieldVariant.
field_variant_of(field) ==
    IF contains_tag(field, "skip") THEN "Skipped"
    ELSE IF contains_tag(field, "event_channel_reader") THEN "Compute"
    ELSE IF is_phantom_data(field) THEN "PhantomData"
    ELSE "Passthrough"

\* Mutant: Compute fields take a descriptor index too.
has_desc_index_compute_too(variant) ==
    variant \in {"PhantomData", "Passthrough", "Compute"}

\* Whether the variant carries a system_desc_field_index (and bumps the counter).
has_desc_index(variant) == variant \in {"PhantomData", "Passthrough"}

\* The FieldMapping pushed for the field at position i (0-based) when the
\* counter stands at idx.
field_mapping(i, field, idx) ==
    LET v == field_variant_of(field)
    IN  IF has_desc_index(v)
        THEN [system_field_index |-> i, field_variant |-> v,
              system_desc_field_index |-> idx, field |-> field]
        ELSE [system_field_index |-> i, field_variant |-> v, field |-> field]

RECURSIVE fold_field_mappings(_, _, _)
\* The fold of system_desc_fields over fields.iter().enumerate(), from the
\* field at position i (1-based in the sequence) with the counter at idx.
fold_field_mappings(fields, i, idx) ==
    IF i > Len(fields) THEN <<>>
    ELSE LET m == field_mapping(i - 1, fields[i], idx)
         IN  <<m>> \o fold_field_mappings(fields, i + 1,
                        IF has_desc_index(m.field_variant) THEN idx + 1 ELSE idx)

\* Mutant: only Skipped fields are left out of the descriptor.
copied_to_desc_all_but_skipped(mapping) == mapping.field_variant # "Skipped"

\* The filter_map building fields_to_copy.
copied_to_desc(mapping) == mapping.field_variant \in {"PhantomData", "Passthrough"}

fields_to_copy(field_mappings) ==
    MapSeq(SelectSeq(field_mappings, copied_to_desc), LAMBDA m : m.field)

\* Mutant: the descriptor is a unit struct whenever nothing is passed through.
desc_fields_unit_without_passthrough(ast, field_mappings) ==
    LET copy == fields_to_copy(field_mappings)
    IN  IF \A i \in 1..Len(field_mappings) :
                field_mappings[i].field_variant # "Passthrough"
        THEN [shape |-> "Unit", fields |-> <<>>]
        ELSE IF ast.shape = "Named" THEN [shape |-> "Named", fields |-> copy]
        ELSE [shape |-> "Unnamed", fields |-> copy]

\* The Fields of the descriptor struct.
desc_fields(ast, field_mappings) ==
    LET copy == fields_to_copy(field_mappings)
    IN  IF copy = <<>> THEN [shape |-> "Unit", fields |-> <<>>]
        ELSE IF ast.shape = "Named" THEN [shape |-> "Named", fields |-> copy]
        ELSE [shape |-> "Unnamed", fields |-> copy]

system_desc_fields(ast) ==
    LET field_mappings == fold_field_mappings(ast.fields, 1, 0)
    IN  [field_mappings |-> field_mappings, fields |-> desc_fields(ast, field_mappings)]

\* SystemDescFields::default().
SystemDescFields_default == [field_mappings |-> <<>>,
                             fields |-> [shape |-> "Unit", fields |-> <<>>]]

has_variant(field_mappings, variants) ==
    \E i \in 1..Len(field_mappings) : field_mappings[i].field_variant \in variants

\* Mutant: the fields are classified in identity mode as well.
fields_and_default_always_classify(ast, is_self) ==
    LET sdf == system_desc_fields(ast)
    IN  [system_desc_fields |-> sdf,
         is_default |-> ~is_self /\ ~has_variant(sdf.field_mappings, {"Passthrough"})]

\* The (system_desc_fields, is_default) pair of impl_system_desc.
fields_and_default(ast, is_self) ==
    IF is_self THEN [system_desc_fields |-> SystemDescFields_default, is_default |-> FALSE]
    ELSE LET sdf == system_desc_fields(ast)
         IN  [system_desc_fields |-> sdf,
              is_default |-> ~has_variant(sdf.field_mappings, {"Passthrough"})]

----------------------------------------------------------------------------
(* Descriptor struct and constructor.                                      *)

\* system_desc_struct: the declaration of the descriptor type.
system_desc_struct(ctx) ==
    [kind |-> "struct", name |-> ctx.system_desc_name,
     shape |-> ctx.system_desc_fields.fields.shape,
     fields |-> ctx.system_desc_fields.fields.fields]

\* Name of the constructor parameter of a descriptor field.
parameter_name(shape, field) ==
    IF shape = "Unnamed" THEN snake_case(field) ELSE field.ident

\* impl_constructor_parameters: one `name: Type` per non-PhantomData field.
impl_constructor_parameters(ctx) ==
    LET fields == ctx.system_desc_fields.fields
    IN  IF fields.shape = "Unit" THEN <<>>
        ELSE MapSeq(SelectSeq(fields.fields, LAMBDA f : ~is_phantom_data(f)),
                    LAMBDA f : [name |-> parameter_name(fields.shape, f), ty |-> f.ty])

\* The initializer impl_constructor_body emits for one descriptor field.
field_initializer(shape, field) ==
    IF is_phantom_data(field)
    THEN [label |-> field.ident, src |-> "phantom_default", ref |-> "None"]
    ELSE [label |-> field.ident, src |-> "param", ref |-> parameter_name(shape, field)]

\* impl_constructor_body: the expression building the descriptor.
impl_constructor_body(ctx) ==
    LET fields == ctx.system_desc_fields.fields
    IN  [shape |-> fields.shape,
         inits |-> MapSeq(fields.fields, LAMBDA f : field_initializer(fields.shape, f))]

\* impl_constructor: `impl Default` when is_default, else `pub fn new(..)`.
impl_constructor(ctx) ==
    IF ctx.is_default
    THEN [kind |-> "impl_default", params |-> <<>>, body |-> impl_constructor_body(ctx)]
    ELSE [kind |-> "fn_new", params |-> impl_constructor_parameters(ctx),
          body |-> impl_constructor_body(ctx)]

----------------------------------------------------------------------------
(* The construction expression of build.                                   *)

Arg(label, src, ref) == [label |-> label, src |-> src, ref |-> ref]

Call(kind, args) == [panic |-> FALSE, kind |-> kind, args |-> args]

\* field.ident.clone().unwrap_or_else(|| snake_case(field))
ident_or_snake_case(field) ==
    IF field.ident = "None" THEN snake_case(field) ELSE field.ident

\* filter_map closure of the Fields::Unit arm.
unit_initializer(m) ==
    CASE m.field_variant = "Skipped" -> <<>>
      [] m.field_variant = "Compute" -> <<Arg("", "local", ident_or_snake_case(m.field))>>
      [] OTHER -> <<Panic>>

\* filter_map closure of the Fields::Unnamed arm.
unnamed_initializer(m) ==
    CASE m.field_variant = "Skipped" -> <<>>
      [] m.field_variant = "Compute" -> <<Arg("", "local", snake_case(m.field))>>
      [] m.field_variant = "PhantomData" -> <<>>
      [] m.field_variant = "Passthrough" ->
            <<Arg("", "self", ToString(m.system_desc_field_index))>>

\* filter_map closure of the Fields::Named arm calling System::new(..).
named_new_initializer(m) ==
    CASE m.field_variant = "Skipped" -> <<>>
      [] m.field_variant = "Compute" -> <<Arg("", "local", m.field.ident)>>
      [] m.field_variant = "PhantomData" -> <<>>
      [] m.field_variant = "Passthrough" -> <<Arg("", "self", m.field.ident)>>

\* filter_map closure of the Fields::Named arm building System { .. }.
named_struct_initializer(m) ==
    CASE m.field_variant = "Skipped" -> <<>>
      [] m.field_variant = "Compute" -> <<Arg(m.field.ident, "local", m.field.ident)>>
      [] m.field_variant = "PhantomData" -> <<>>
      [] m.field_variant = "Passthrough" -> <<Arg(m.field.ident, "self", m.field.ident)>>

initializers(field_mappings, F(_)) == Concat(MapSeq(field_mappings, F))

\* An unreachable!() hit while collecting the initializers aborts generation.
CallOrPanic(kind, args) ==
    IF \E i \in 1..Len(args) : "panic" \in DOMAIN args[i] THEN Panic
    ELSE Call(kind, args)

\* Mutant: the unit expression is used whenever nothing is computed.
call_unit_never_default(field_mappings) ==
    IF has_variant(field_mappings, {"Compute"})
    THEN CallOrPanic("new", initializers(field_mappings, unit_initializer))
    ELSE Call("unit", <<>>)

\* call_system_constructor, Fields::Unit arm.
call_unit(field_mappings) ==
    IF field_mappings = <<>> THEN Call("unit", <<>>)
    ELSE IF has_variant(field_mappings, {"Compute"})
         THEN CallOrPanic("new", initializers(field_mappings, unit_initializer))
         ELSE Call("default", <<>>)

\* Mutant: Passthrough fields count as fields to pass, as in the Named arm.
call_unnamed_counts_passthrough(field_mappings) ==
    IF has_variant(field_mappings, {"Compute", "Passthrough"})
    THEN Call("new", initializers(field_mappings, unnamed_initializer))
    ELSE Call("default", <<>>)

\* call_system_constructor, Fields::Unnamed arm.
call_unnamed(field_mappings) ==
    IF has_variant(field_mappings, {"Compute"})
    THEN Call("new", initializers(field_mappings, unnamed_initializer))
    ELSE Call("default", <<>>)

\* Mutant: the struct expression is used whatever the other fields are.
call_named_always_struct(field_mappings) ==
    IF has_variant(field_mappings, {"Compute", "Passthrough"})
    THEN Call("struct", initializers(field_mappings, named_struct_initializer))
    ELSE IF has_variant(field_mappings, {"Skipped", "PhantomData"})
         THEN Call("default", <<>>)
         ELSE Call("struct", <<>>)

\* call_system_constructor, Fields::Named arm.
call_named(field_mappings) ==
    LET has_fields_to_compute_or_passthrough ==
            has_variant(field_mappings, {"Compute", "Passthrough"})
        has_fields_skipped_or_phantom ==
            has_variant(field_mappings, {"Skipped", "PhantomData"})
    IN  IF has_fields_to_compute_or_passthrough
        THEN IF has_fields_skipped_or_phantom
             THEN Call("new", initializers(field_mappings, named_new_initializer))
             ELSE Call("struct", initializers(field_mappings, named_struct_initializer))
        ELSE IF has_fields_skipped_or_phantom
             THEN Call("default", <<>>)
             ELSE Call("struct", <<>>)

call_system_constructor(ctx) ==
    LET fields == ctx.system_desc_fields.fields
        field_mappings == ctx.system_desc_fields.field_mappings
    IN  CASE fields.shape = "Unit" -> call_unit(field_mappings)
          [] fields.shape = "Unnamed" -> call_unnamed(field_mappings)
          [] fields.shape = "Named" -> call_named(field_mappings)

----------------------------------------------------------------------------
(* Derivation of the computed fields.                                      *)

\* Mutant: the first generic argument is taken whether or not others follow.
event_type_path_first_of_many(ty) ==
    IF ~ty.path THEN Panic
    ELSE IF ~ty.angle THEN Panic
    ELSE IF Len(ty.args) >= 1 /\ ty.args[1].kind = "type_path"
         THEN [panic |-> FALSE, path |-> ty.args[1].name]
         ELSE Panic

\* The nested `if let`s extracting the event type of a ReaderId field: the
\* last segment must have angle brackets whose first argument is also the
\* last one (Pair::End) and is a path type.
event_type_path(ty) ==
    IF ~ty.path THEN Panic
    ELSE IF ~ty.angle THEN Panic
    ELSE IF Len(ty.args) = 1 /\ ty.args[1].kind = "type_path"
         THEN [panic |-> FALSE, path |-> ty.args[1].name]
         ELSE Panic

\* Mutant: EventChannel is given the field's own type name instead of the
\* type's generic argument.
computation_tokens_outer_type(m) ==
    IF m.field_variant = "Compute"
    THEN LET p == event_type_path(m.field.ty)
         IN  IF p.panic THEN <<Panic>>
             ELSE <<[op |-> "register_reader", bind |-> ident_or_snake_case(m.field),
                     event |-> m.field.ty.name]>>
    ELSE <<>>

\* The tokens the fold of field_computation_expressions adds for a mapping.
computation_tokens(m) ==
    IF m.field_variant = "Compute"
    THEN LET p == event_type_path(m.field.ty)
         IN  IF p.panic THEN <<Panic>>
             ELSE <<[op |-> "register_reader", bind |-> ident_or_snake_case(m.field),
                     event |-> p.path]>>
    ELSE <<>>

field_computation_expressions(sdf) ==
    LET stmts == Concat(MapSeq(sdf.field_mappings, computation_tokens))
    IN  IF \E i \in 1..Len(stmts) : "panic" \in DOMAIN stmts[i] THEN Panic
        ELSE [panic |-> FALSE, stmts |-> stmts]

----------------------------------------------------------------------------
(* The generated impl.                                                     *)

\* Mutant: the derivations are quoted before the inserts.
build_body_computations_first(insertions, computations, call) ==
    <<[op |-> "setup"]>> \o computations \o insertions
        \o <<[op |-> "construct", call |-> call]>>

\* The body of the generated build, as quoted by impl_system_desc.
build_body(insertions, computations, call) ==
    <<[op |-> "setup"]>> \o insertions \o computations
        \o <<[op |-> "construct", call |-> call]>>

\* The quote! at the end of impl_system_desc.
quote_impl(ctx, struct, constructor, insertions, computations, call) ==
    [system_desc_struct |-> struct,
     constructor |-> constructor,
     impl_for |-> ctx.system_desc_name,
     builds |-> ctx.system_name,
     build |-> build_body(insertions, computations, call)]

----------------------------------------------------------------------------
(* impl_system_desc as a state machine over one definition.                *)

VARIABLES
    ast,        \* the DeriveInput
    pc,         \* position inside impl_system_desc
    desc_name,  \* the Option<Ident> returned by system_desc_name
    context,    \* the Context
    tokens,     \* the token streams computed so far
    output,     \* the token stream returned, once quoted
    bundle      \* a run of SystemDescInjectionBundle::build, when one is modelled

vars == <<ast, pc, desc_name, context, tokens, output, bundle>>

NoTokens ==
    [system_desc_struct |-> Absent, constructor |-> Absent,
     call_system_constructor |-> Absent,
     resource_insertion_expressions |-> Absent,
     field_computation_expressions |-> Absent]

Init ==
    /\ ast \in AstDomain
    /\ pc = "start"
    /\ desc_name = Absent
    /\ context = Absent
    /\ tokens = NoTokens
    /\ output = Absent
    /\ bundle = Absent

\* let system_desc_name = system_desc_name(&ast);
SystemDescName ==
    /\ pc = "start"
    /\ LET r == system_desc_name(ast)
       IN  IF r.panic
           THEN pc' = "panicked" /\ UNCHANGED desc_name
           ELSE pc' = "context" /\ desc_name' = r.name
    /\ UNCHANGED <<bundle, ast, context, tokens, output>>

\* is_self, the (system_desc_fields, is_default) pair and the Context.
MakeContext ==
    /\ pc = "context"
    /\ LET is_self == desc_name = "None"
           fd == fields_and_default(ast, is_self)
       IN  context' = [system_name |-> ast.ident,
                       system_desc_name |-> IF is_self THEN ast.ident ELSE desc_name,
                       system_desc_fields |-> fd.system_desc_fields,
                       is_default |-> fd.is_default,
                       is_self |-> is_self]
    /\ pc' = "tokens"
    /\ UNCHANGED <<bundle, ast, desc_name, tokens, output>>

\* if is_self { (TokenStream::new(), TokenStream::new(), quote!(self)) }
IdentityTokens ==
    /\ pc = "tokens"
    /\ context.is_self
    /\ tokens' = [tokens EXCEPT !.system_desc_struct = EmptyTokens,
                                !.constructor = EmptyTokens,
                                !.call_system_constructor = Call("self", <<>>)]
    /\ pc' = "insertions"
    /\ UNCHANGED <<bundle, ast, desc_name, context, output>>

SystemDescStruct ==
    /\ pc = "tokens"
    /\ ~context.is_self
    /\ tokens' = [tokens EXCEPT !.system_desc_struct = system_desc_struct(context)]
    /\ pc' = "constructor"
    /\ UNCHANGED <<bundle, ast, desc_name, context, output>>

ImplConstructor ==
    /\ pc = "constructor"
    /\ tokens' = [tokens EXCEPT !.constructor = impl_constructor(context)]
    /\ pc' = "call"
    /\ UNCHANGED <<bundle, ast, desc_name, context, output>>

CallSystemConstructor ==
    /\ pc = "call"
    /\ LET c == call_system_constructor(context)
       IN  IF c.panic
           THEN pc' = "panicked" /\ UNCHANGED tokens
           ELSE /\ pc' = "insertions"
                /\ tokens' = [tokens EXCEPT !.call_system_constructor = c]
    /\ UNCHANGED <<bundle, ast, desc_name, context, output>>

ResourceInsertionExpressions ==
    /\ pc = "insertions"
    /\ LET r == resource_insertion_expressions(ast)
       IN  IF r.panic
           THEN pc' = "panicked" /\ UNCHANGED tokens
           ELSE /\ pc' = "computations"
                /\ tokens' = [tokens EXCEPT !.resource_insertion_expressions = r.stmts]
    /\ UNCHANGED <<bundle, ast, desc_name, context, output>>

FieldComputationExpressions ==
    /\ pc = "computations"
    /\ LET r == field_computation_expressions(context.system_desc_fields)
       IN  IF r.panic
           THEN pc' = "panicked" /\ UNCHANGED tokens
           ELSE /\ pc' = "quote"
                /\ tokens' = [tokens EXCEPT !.field_computation_expressions = r.stmts]
    /\ UNCHANGED <<bundle, ast, desc_name, context, output>>

Quote ==
    /\ pc = "quote"
    /\ output' = quote_impl(context, tokens.system_desc_struct, tokens.constructor,
                            tokens.resource_insertion_expressions,
                            tokens.field_computation_expressions,
                            tokens.call_system_constructor)
    /\ pc' = "done"
    /\ UNCHANGED <<bundle, ast, desc_name, context, tokens>>

Next ==
    \/ SystemDescName
    \/ MakeContext
    \/ IdentityTokens
    \/ SystemDescStruct
    \/ ImplConstructor
    \/ CallSystemConstructor
    \/ ResourceInsertionExpressions
    \/ FieldComputationExpressions
    \/ Quote

Spec == Init /\ [][Next]_vars

----------------------------------------------------------------------------
(* SystemDescInjectionBundle::build (amethyst_test).                       *)

\* The descriptors given to a bundle: what their SystemDesc::build does to
\* the world, the system it returns, and whether it panics instead.
SystemDescChoices ==
    [effects : {<<"setup">>, <<"setup", "insert">>,
                <<"setup", "insert", "register_reader">>},
     system : {"SysA", "SysB"},
     panics : BOOLEAN]

SystemNames == {"sys_a", "sys_b"}

\* The value Ok(()).
OkUnit == [ok |-> TRUE]

\* An entry of the DispatcherBuilder.
Registered(system, name, dependencies) ==
    [system |-> system, name |-> name, dependencies |-> dependencies]

\* The bundles explored, with the world and the dispatcher builder they are
\* built into; add_panics says whether DispatcherBuilder::add panics.
BundleDomain ==
    [system_desc : SystemDescChoices,
     system_name : SystemNames,
     system_dependencies : SeqsUpTo({"dep_a", "dep_b"}, MaxDependencies),
     world0 : {<<>>, <<"insert">>},
     builder0 : {<<>>, <<Registered("SysC", "dep_a", <<>>)>>},
     add_panics : BOOLEAN]

\* The state of a call of build(self, world, builder) on entry.
BundleStart(b) ==
    [self |-> [system_desc |-> b.system_desc, system_name |-> b.system_name,
               system_dependencies |-> b.system_dependencies],
     world0 |-> b.world0, builder0 |-> b.builder0, add_panics |-> b.add_panics,
     pc |-> "start", world |-> b.world0, builder |-> b.builder0,
     calls |-> <<>>, system |-> Absent, result |-> Absent]

\* Mutant: the system is added without its dependencies.
add_arguments_without_dependencies(b) ==
    Registered(b.system, b.self.system_name, <<>>)

\* The arguments of builder.add(..): the built system, self.system_name and
\* self.system_dependencies.
add_arguments(b) ==
    Registered(b.system, b.self.system_name, b.self.system_dependencies)

InitBundle ==
    /\ ast = [ident |-> "Sys", shape |-> "Unit", fields |-> <<>>, attrs |-> <<>>]
    /\ pc = "idle"
    /\ desc_name = Absent
    /\ context = Absent
    /\ tokens = NoTokens
    /\ output = Absent
    /\ \E b \in BundleDomain : bundle = BundleStart(b)

\* self.system_desc.build(world): the first argument of builder.add(..) is
\* evaluated before the call; a panic of the descriptor unwinds build.
BundleSystemDescBuild ==
    /\ bundle.pc = "start"
    /\ bundle' =
          IF bundle.self.system_desc.panics
          THEN [bundle EXCEPT !.pc = "unwound", !.calls = Append(@, "system_desc.build")]
          ELSE [bundle EXCEPT !.pc = "built",
                              !.calls = Append(@, "system_desc.build"),
                              !.world = @ \o bundle.self.system_desc.effects,
                              !.system = bundle.self.system_desc.system]
    /\ UNCHANGED <<ast, pc, desc_name, context, tokens, output>>

\* builder.add(system, self.system_name, self.system_dependencies)
BundleBuilderAdd ==
    /\ bundle.pc = "built"
    /\ bundle' =
          IF bundle.add_panics
          THEN [bundle EXCEPT !.pc = "unwound", !.calls = Append(@, "builder.add")]
          ELSE [bundle EXCEPT !.pc = "added",
                              !.calls = Append(@, "builder.add"),
                              !.builder = Append(@, add_arguments(bundle))]
    /\ UNCHANGED <<ast, pc, desc_name, context, tokens, output>>

\* Ok(())
BundleReturnOk ==
    /\ bundle.pc = "added"
    /\ bundle' = [bundle EXCEPT !.pc = "returned", !.result = OkUnit]
    /\ UNCHANGED <<ast, pc, desc_name, context, tokens, output>>

NextBundle ==
    \/ BundleSystemDescBuild
    \/ BundleBuilderAdd
    \/ BundleReturnOk

SpecBundle == InitBundle /\ [][NextBundle]_vars

----------------------------------------------------------------------------
(* Vocabulary of the properties, stated on the definition itself.          *)

Done == pc = "done"

\* A #[system_desc(name(..))] list is given: a separate descriptor is generated.
NameGiven ==
    \E a \in 1..Len(ast.attrs) :
        /\ ast.attrs[a].path = "system_desc"
        /\ \E n \in 1..Len(ast.attrs[a].nested) :
              ast.attrs[a].nested[n].name = "name" /\ ast.attrs[a].nested[n].list

Generated == Done /\ NameGiven

FieldPositions == 1..Len(ast.fields)

IsSkipped(f) == f.skip
IsComputed(f) == ~f.skip /\ f.reader
IsPlaceholder(f) == ~f.skip /\ ~f.reader /\ f.ty.name = "PhantomData"
IsPassthrough(f) == ~f.skip /\ ~f.reader /\ f.ty.name # "PhantomData"

SkippedAt == {i \in FieldPositions : IsSkipped(ast.fields[i])}
ComputedAt == {i \in FieldPositions : IsComputed(ast.fields[i])}
PlaceholderAt == {i \in FieldPositions : IsPlaceholder(ast.fields[i])}
PassthroughAt == {i \in FieldPositions : IsPassthrough(ast.fields[i])}

\* Fields that belong to the descriptor, and fields that are constructor arguments.
DescriptorAt == PlaceholderAt \cup PassthroughAt
ArgumentAt == PassthroughAt \cup ComputedAt

\* 1-based rank of position i inside the set S of positions.
Rank(S, i) == Cardinality({j \in S : j <= i})

\* The reference through which build reads the descriptor field of position i.
SelfRef(i) ==
    IF ast.shape = "Named" THEN ast.fields[i].ident
    ELSE ToString(Rank(DescriptorAt, i) - 1)

ConstructCall == output.build[Len(output.build)].call

Readers == SelectSeq(output.build, LAMBDA st : st.op = "register_reader")

Inserts == SelectSeq(output.build, LAMBDA st : st.op = "insert")

----------------------------------------------------------------------------
(* C1 and C3: passthrough values in the construction expression.           *)

\* C1: round trip; in non-identity mode every Passthrough field of the
\* structure is sourced from the descriptor (self.<index> or self.<name>) by
\* the construction expression of build, so the value given to the
\* descriptor's constructor reaches the final structure.
C1_PassthroughSourcedFromDescriptor ==
    Generated =>
        \A i \in PassthroughAt :
            \E k \in 1..Len(ConstructCall.args) :
                /\ ConstructCall.args[k].src = "self"
                /\ ConstructCall.args[k].ref = SelfRef(i)

\* The argument expected at the position of field i of a positional struct:
\* self.<descriptor index> or the local bound by the field's own derivation.
PositionalArg(i) ==
    IF i \in PassthroughAt THEN Arg("", "self", SelfRef(i))
    ELSE Arg("", "local", Readers[Rank(ComputedAt, i)].bind)

\* C3: for positional structures with at least one Passthrough or Computed
\* field, build calls System::new(..) with, in field order, self.<index> for
\* each Passthrough field and the computed value for each Computed field, and
\* nothing for Placeholder and Skipped fields.
C3_PositionalNew ==
    (Generated /\ ast.shape = "Unnamed" /\ ArgumentAt # {}) =>
        /\ ConstructCall.kind = "new"
        /\ Len(ConstructCall.args) = Cardinality(ArgumentAt)
        /\ \A i \in ArgumentAt :
              ConstructCall.args[Rank(ArgumentAt, i)] = PositionalArg(i)

----------------------------------------------------------------------------
(* C2 and C8: the classification.                                          *)

Classified == context # Absent /\ NameGiven

Mappings == context.system_desc_fields.field_mappings

\* C2: Passthrough and PhantomData fields get the descriptor indices
\* 0, 1, .., k-1 in source order; Skipped and Compute fields carry no
\* descriptor index and do not advance the counter; every field keeps its
\* original position as system_field_index.
C2_DenseDescriptorIndices ==
    Classified =>
        /\ Len(Mappings) = Len(ast.fields)
        /\ \A i \in FieldPositions :
              /\ Mappings[i].system_field_index = i - 1
              /\ Mappings[i].field = ast.fields[i]
              /\ ("system_desc_field_index" \in DOMAIN Mappings[i]) <=> (i \in DescriptorAt)
              /\ i \in DescriptorAt =>
                    Mappings[i].system_desc_field_index = Rank(DescriptorAt, i) - 1

\* A Skipped or Compute field is followed by a descriptor field, which takes
\* the index the skipped one did not use.
C2_Witness ==
    /\ Classified
    /\ Len(Mappings) = 2
    /\ Mappings[1].field_variant \in {"Skipped", "Compute"}
    /\ Mappings[2].field_variant = "Passthrough"
    /\ Mappings[2].system_desc_field_index = 0

\* C8: first matching rule wins: skip -> Skipped, else event_channel_reader
\* -> Compute, else PhantomData -> PhantomData (Placeholder), else
\* Passthrough; every field gets exactly one of the four categories.
C8_FirstMatchClassification ==
    Classified =>
        /\ Len(Mappings) = Len(ast.fields)
        /\ \A i \in FieldPositions :
              LET f == ast.fields[i]
                  v == Mappings[i].field_variant
              IN  /\ v \in {"Skipped", "Compute", "PhantomData", "Passthrough"}
                  /\ f.skip => v = "Skipped"
                  /\ (~f.skip /\ f.reader) => v = "Compute"
                  /\ (~f.skip /\ ~f.reader /\ f.ty.name = "PhantomData") => v = "PhantomData"
                  /\ (~f.skip /\ ~f.reader /\ f.ty.name # "PhantomData") => v = "Passthrough"

\* A field tagged both skip and event_channel_reader is Skipped, and a
\* PhantomData field tagged event_channel_reader is Compute.
C8_Witness ==
    /\ Classified
    /\ Len(Mappings) = 2
    /\ ast.fields[1].skip /\ ast.fields[1].reader
    /\ Mappings[1].field_variant = "Skipped"
    /\ ast.fields[2].ty.name = "PhantomData" /\ ast.fields[2].reader
    /\ Mappings[2].field_variant = "Compute"

----------------------------------------------------------------------------
(* C4 and C5: the construction strategy.                                   *)

\* C4 as claimed: with zero Passthrough and zero Computed fields, the empty
\* field set included, build ends with System::default().
C4_AlwaysDefault ==
    (Generated /\ ArgumentAt = {}) => ConstructCall = Call("default", <<>>)

\* C4 as amended: with at least one field and zero Passthrough and zero
\* Computed fields build ends with System::default(); with no field at all
\* it ends with the unit expression `System`.
C4_DefaultUnlessEmpty ==
    (Generated /\ ArgumentAt = {}) =>
        ConstructCall = IF ast.fields = <<>> THEN Call("unit", <<>>)
                        ELSE Call("default", <<>>)

C4_Witness ==
    /\ Generated
    /\ Len(ast.fields) = 2
    /\ 1 \in SkippedAt /\ 2 \in PlaceholderAt
    /\ ConstructCall.kind = "default"

\* The arguments of a named construction: in field order, one per
\* Passthrough or Computed field, self.<name> or the local <name>, labelled
\* with the field name when `labelled`.
NamedArg(i, labelled) ==
    Arg(IF labelled THEN ast.fields[i].ident ELSE "",
        IF i \in PassthroughAt THEN "self" ELSE "local",
        ast.fields[i].ident)

NamedArgsAre(labelled) ==
    /\ Len(ConstructCall.args) = Cardinality(ArgumentAt)
    /\ \A i \in ArgumentAt :
          ConstructCall.args[Rank(ArgumentAt, i)] = NamedArg(i, labelled)

\* C5 as claimed: a named structure is built with System { name: value, .. }
\* whenever a Passthrough or Computed field exists and with System::default()
\* otherwise, the values being self.<name> and the computed <name>.
C5_NamedFieldConstructor ==
    (Generated /\ ast.shape = "Named") =>
        IF ArgumentAt # {}
        THEN ConstructCall.kind = "struct" /\ NamedArgsAre(TRUE)
        ELSE ConstructCall = Call("default", <<>>)

\* C5 as amended: System { name: value, .. } is used when a Passthrough
\* field exists and no field is Skipped or Placeholder; when a Passthrough or
\* Computed field exists otherwise (beside a Skipped or Placeholder field, or
\* with Computed fields only), build calls System::new(..) with the same
\* values as positional arguments in field order; with fields but none
\* Passthrough or Computed it calls System::default(), and with no field the
\* unit expression `System`.
C5_NamedConstruction ==
    (Generated /\ ast.shape = "Named") =>
        IF ArgumentAt # {}
        THEN IF PassthroughAt # {} /\ SkippedAt \cup PlaceholderAt = {}
             THEN ConstructCall.kind = "struct" /\ NamedArgsAre(TRUE)
             ELSE ConstructCall.kind = "new" /\ NamedArgsAre(FALSE)
        ELSE ConstructCall = IF ast.fields = <<>> THEN Call("unit", <<>>)
                             ELSE Call("default", <<>>)

\* A named structure with a Skipped field in front of a Passthrough one is
\* built by System::new(self.f1).
C5_Witness ==
    /\ Generated /\ ast.shape = "Named"
    /\ Len(ast.fields) = 2
    /\ 1 \in SkippedAt /\ 2 \in PassthroughAt
    /\ ConstructCall.kind = "new"
    /\ ConstructCall.args = <<Arg("", "self", "f1")>>

----------------------------------------------------------------------------
(* C6, C7 and C9: the body of build.                                       *)

\* The event type declared by a well-formed ReaderId field: its single
\* generic argument.
DeclaredEvent(f) == f.ty.args[1].name

ReadersMatchComputedFields ==
    /\ Len(Readers) = Cardinality(ComputedAt)
    /\ \A i \in ComputedAt :
          Readers[Rank(ComputedAt, i)].event = DeclaredEvent(ast.fields[i])

\* C6 as claimed: for every definition the generated build has exactly one
\* fetch_mut::<EventChannel<T>>().register_reader() statement per Computed
\* field, in field order, T being the field's generic argument, and none
\* when there is no Computed field.
C6_OneReaderPerComputedField == Done => ReadersMatchComputedFields

\* C6 as amended: the same, for definitions processed in non-identity mode
\* (a descriptor name is given); in identity mode build registers no reader.
C6_OneReaderPerComputedFieldNamed ==
    /\ Generated => ReadersMatchComputedFields
    /\ (Done /\ ~NameGiven) => Readers = <<>>

C6_Witness ==
    /\ Generated
    /\ Len(ast.fields) = 2
    /\ ComputedAt = {1, 2}
    /\ Readers[1].event = "EvB" /\ Readers[2].event = "EvA"

\* The insert(..) items of the definition, by position: attribute, nested
\* meta, item.
InsertPositions ==
    UNION {
        UNION {
            {<<a, n, k>> : k \in 1..Len(ast.attrs[a].nested[n].items)} :
            n \in {n \in 1..Len(ast.attrs[a].nested) :
                      ast.attrs[a].nested[n].name = "insert" /\ ast.attrs[a].nested[n].list}} :
        a \in {a \in 1..Len(ast.attrs) : ast.attrs[a].path = "system_desc"}}

DeclaredBefore(p, q) ==
    \/ p[1] < q[1]
    \/ p[1] = q[1] /\ p[2] < q[2]
    \/ p[1] = q[1] /\ p[2] = q[2] /\ p[3] <= q[3]

\* One world.insert(..) per declared item, in declaration order.
InsertsInDeclarationOrder ==
    /\ Len(Inserts) = Cardinality(InsertPositions)
    /\ \A q \in InsertPositions :
          Inserts[Cardinality({p \in InsertPositions : DeclaredBefore(p, q)})].expr
              = ast.attrs[q[1]].nested[q[2]].items[q[3]].text

\* C7: in identity mode no descriptor type and no constructor are emitted,
\* the build interface is implemented on the structure itself, and build
\* only runs the setup call and the declared inserts before returning self.
C7_IdentityMode ==
    (Done /\ ~NameGiven) =>
        /\ output.system_desc_struct = EmptyTokens
        /\ output.constructor = EmptyTokens
        /\ output.impl_for = ast.ident /\ output.builds = ast.ident
        /\ output.build[1] = [op |-> "setup"]
        /\ ConstructCall = Call("self", <<>>)
        /\ Len(output.build) = Len(Inserts) + 2
        /\ InsertsInDeclarationOrder

\* Identity mode on a structure that has a tagged reader field and inserts.
C7_Witness ==
    /\ Done /\ ~NameGiven
    /\ \E i \in FieldPositions : ast.fields[i].reader /\ ~ast.fields[i].skip
    /\ \E i \in FieldPositions : ast.fields[i].skip
    /\ Len(Inserts) = 2

Phase(st) ==
    CASE st.op = "setup" -> 1
      [] st.op = "insert" -> 2
      [] st.op = "register_reader" -> 3
      [] st.op = "construct" -> 4

\* C9: build runs the setup call, then one world.insert(..) per declared
\* item in declaration order, then the derivations of the Computed fields,
\* and ends with the construction expression; no step of a later phase
\* precedes a step of an earlier one.
C9_BuildOrder ==
    Done =>
        /\ output.build[1].op = "setup"
        /\ output.build[Len(output.build)].op = "construct"
        /\ \A i, j \in 1..Len(output.build) :
              i < j => /\ Phase(output.build[i]) <= Phase(output.build[j])
                       /\ output.build[j].op # "setup"
                       /\ output.build[i].op # "construct"
        /\ InsertsInDeclarationOrder

\* A build with inserts from two attributes and a derivation.
C9_Witness ==
    /\ Generated
    /\ Len(Inserts) = 4
    /\ Len(Readers) = 1
    /\ Len(output.build) = 7

----------------------------------------------------------------------------
(* C10: the descriptor type.                                               *)

\* C10: in non-identity mode the descriptor holds exactly the Placeholder
\* and Passthrough fields, in source order, the field at descriptor position
\* i being the one whose system_desc_field_index is i; its shape is unit when
\* there is none, else the shape of the source structure.
C10_DescriptorFields ==
    Generated =>
        LET d == output.system_desc_struct
        IN  /\ d.kind = "struct"
            /\ Len(d.fields) = Cardinality(DescriptorAt)
            /\ \A i \in DescriptorAt :
                  /\ d.fields[Rank(DescriptorAt, i)] = ast.fields[i]
                  /\ d.fields[Mappings[i].system_desc_field_index + 1] = ast.fields[i]
            /\ d.shape = IF DescriptorAt = {} THEN "Unit" ELSE ast.shape

\* A Computed field in front of a Passthrough one: the descriptor has the
\* Passthrough field alone, at position 0.
C10_Witness ==
    /\ Generated
    /\ Len(ast.fields) = 2
    /\ 1 \in ComputedAt /\ 2 \in PassthroughAt
    /\ output.system_desc_struct.shape = "Unnamed"
    /\ output.system_desc_struct.fields = <<ast.fields[2]>>

----------------------------------------------------------------------------
(* C11 and C12: the descriptor's constructor.                              *)

ConstructorParams == output.constructor.params

ConstructorInits == output.constructor.body.inits

\* C11: the constructor takes one parameter per Passthrough field, in
\* descriptor order and of the field's type, none for a Placeholder field;
\* it fills every Placeholder field with PhantomData::default() and every
\* Passthrough field from its own parameter, the parameters being distinct
\* (named after the field for named fields), also when two positional
\* Passthrough fields have the same type name.
C11_ConstructorParameters ==
    Generated =>
        /\ Len(ConstructorParams) = Cardinality(PassthroughAt)
        /\ \A i \in PassthroughAt :
              /\ ConstructorParams[Rank(PassthroughAt, i)].ty = ast.fields[i].ty
              /\ ast.shape = "Named" =>
                    ConstructorParams[Rank(PassthroughAt, i)].name = ast.fields[i].ident
        /\ \A j, k \in 1..Len(ConstructorParams) :
              j # k => ConstructorParams[j].name # ConstructorParams[k].name
        /\ Len(ConstructorInits) = Cardinality(DescriptorAt)
        /\ \A i \in PlaceholderAt :
              ConstructorInits[Rank(DescriptorAt, i)].src = "phantom_default"
        /\ \A i \in PassthroughAt :
              /\ ConstructorInits[Rank(DescriptorAt, i)].src = "param"
              /\ ConstructorInits[Rank(DescriptorAt, i)].ref
                    = ConstructorParams[Rank(PassthroughAt, i)].name

\* The scenario of C12: a positional structure of one field tagged skip and
\* one ordinary field, in either order.
SkipAndOrdinary ==
    /\ ast.shape = "Unnamed"
    /\ Len(ast.fields) = 2
    /\ Cardinality(SkippedAt) = 1
    /\ Cardinality(PassthroughAt) = 1

\* C12: for a positional structure with one skip field and one ordinary
\* field, the descriptor has the ordinary field alone, the constructor takes
\* exactly one parameter, and build ends with System::default(), passing
\* nothing of the descriptor.
C12_SkipAndOrdinaryScenario ==
    (Generated /\ SkipAndOrdinary) =>
        /\ output.system_desc_struct.shape = "Unnamed"
        /\ \A i \in PassthroughAt :
              output.system_desc_struct.fields = <<ast.fields[i]>>
        /\ output.constructor.kind = "fn_new"
        /\ Len(ConstructorParams) = 1
        /\ ConstructCall = Call("default", <<>>)

C12_Witness ==
    /\ Generated /\ SkipAndOrdinary
    /\ 1 \in SkippedAt
    /\ ConstructCall.kind = "default"
    /\ Len(output.system_desc_struct.fields) = 1

----------------------------------------------------------------------------
(* C13 and C14: fatal inputs.                                              *)

\* The declared type is not a path type whose last segment has exactly one
\* generic argument that is a path type.
Malformed(ty) ==
    ~(ty.path /\ ty.angle /\ Len(ty.args) = 1 /\ ty.args[1].kind = "type_path")

\* Generation has not got past the panic: nothing is quoted or returned.
NoOutput == pc \notin {"quote", "done"} /\ output = Absent

GroupsNamed(kind) ==
    UNION {
        {<<a, n>> : n \in {n \in 1..Len(ast.attrs[a].nested) :
                              ast.attrs[a].nested[n].name = kind /\ ast.attrs[a].nested[n].list}} :
        a \in {a \in 1..Len(ast.attrs) : ast.attrs[a].path = "system_desc"}}

GroupAt(p) == ast.attrs[p[1]].nested[p[2]]

\* A name(..) list that does not hold exactly one bare identifier.
BadNameGroup(g) == ~(Len(g.items) = 1 /\ g.items[1].kind = "word")

\* An insert(..) entry that is neither a bare identifier nor a string
\* literal parsing as an expression.
BadInsertItem(it) == ~(it.kind = "word" \/ (it.kind = "str" /\ it.parses))

BadInsertGroup(g) == \E k \in 1..Len(g.items) : BadInsertItem(g.items[k])

\* C14: every malformed top-level annotation is fatal: a name(..) list
\* without exactly one bare identifier, also one that follows a well-formed
\* name(..) list, or an insert(..) entry that is neither an identifier nor a
\* parseable string literal, aborts generation without output.
C14_MalformedAnnotationAborts ==
    (\/ \E p \in GroupsNamed("name") : BadNameGroup(GroupAt(p))
     \/ \E p \in GroupsNamed("insert") : BadInsertGroup(GroupAt(p)))
        => NoOutput

----------------------------------------------------------------------------
(* C16 and C17: computed values and the unreachable arms.                  *)

\* C16: the let-bindings of distinct Computed fields have distinct names,
\* and the construction expression passes, for each Computed field, the
\* binding made by that field's own derivation, also for a positional
\* structure with two or more Computed fields.
C16_ComputedArgsAreOwnBindings ==
    Generated =>
        /\ \A j, k \in 1..Len(Readers) : j # k => Readers[j].bind # Readers[k].bind
        /\ \A i \in ComputedAt :
              /\ ConstructCall.args[Rank(ArgumentAt, i)].src = "local"
              /\ ConstructCall.args[Rank(ArgumentAt, i)].ref
                    = Readers[Rank(ComputedAt, i)].bind
              /\ ast.shape = "Named" =>
                    Readers[Rank(ComputedAt, i)].bind = ast.fields[i].ident

\* The call_system_constructor step ended in a panic: the constructor was
\* emitted and the construction expression was not.
UnreachableHit ==
    /\ pc = "panicked"
    /\ tokens.constructor # Absent
    /\ tokens.call_system_constructor = Absent

\* C17: the unreachable!() arms of call_system_constructor are never run:
\* when the descriptor shape is Fields::Unit every field mapping is Skipped
\* or Compute.
C17_UnitShapeHasNoDescriptorField ==
    /\ ~UnreachableHit
    /\ context # Absent =>
          (context.system_desc_fields.fields.shape = "Unit" =>
              \A i \in 1..Len(Mappings) :
                  Mappings[i].field_variant \in {"Skipped", "Compute"})

\* The Fields::Unit arm built System::new(..) from a Skipped and a Compute
\* mapping.
C17_Witness ==
    /\ Generated
    /\ context.system_desc_fields.fields.shape = "Unit"
    /\ Len(Mappings) = 2
    /\ Mappings[1].field_variant = "Skipped"
    /\ Mappings[2].field_variant = "Compute"
    /\ ConstructCall.kind = "new"
    /\ Len(ConstructCall.args) = 1

----------------------------------------------------------------------------
(* C15: the injection bundle.                                              *)

\* C15: SystemDescInjectionBundle::build calls the descriptor's build on
\* the world once and before anything is added, adds the built system once
\* under self.system_name with self.system_dependencies, and its result is
\* Ok(()), never an error.
C15_BundleBuildsThenAdds ==
    /\ bundle.calls \in {<<>>, <<"system_desc.build">>,
                         <<"system_desc.build", "builder.add">>}
    /\ bundle.result \in {Absent, OkUnit}
    /\ bundle.pc \in {"built", "added", "returned"} =>
          /\ bundle.world = bundle.world0 \o bundle.self.system_desc.effects
          /\ bundle.system = bundle.self.system_desc.system
    /\ bundle.pc \in {"start", "built", "unwound"} => bundle.builder = bundle.builder0
    /\ bundle.pc \in {"added", "returned"} =>
          /\ bundle.calls = <<"system_desc.build", "builder.add">>
          /\ bundle.builder =
                Append(bundle.builder0,
                       Registered(bundle.self.system_desc.system,
                                  bundle.self.system_name,
                                  bundle.self.system_dependencies))
    /\ bundle.pc = "returned" <=> bundle.result = OkUnit

\* A bundle with two dependencies was built into a builder that already
\* held a system, and returned.
C15_Witness ==
    /\ bundle.pc = "returned"
    /\ Len(bundle.self.system_dependencies) = 2
    /\ Len(bundle.builder) = 2
    /\ Len(bundle.world) = 4

====
